---- MODULE Spec2Model ----
(***************************************************************************)
(* Model of package openrtb, file bid.go: the MultiString scalar (decoded  *)
(* from a JSON string or number, encoded with fmt's %q verb), the Bid      *)
(* record with its JSON field tags, and Bid.Validate.                      *)
(*                                                                         *)
(* Texts and byte slices are sequences of character tokens.  A token is    *)
(* one character of the text: the letters and digits stand for themselves, *)
(* QUOTE is the double quote, BACKSLASH the reverse solidus, LF the raw    *)
(* line feed (0x0A), BEL the raw bell control character (0x07) and E9 the  *)
(* printable non-ASCII letter U+00E9.                                      *)
(***************************************************************************)
EXTENDS Integers, Sequences, FiniteSets, TLC

VARIABLES pc, src, data, ms, res, out, ms2, res2, payload, bid, berr, verr, wire, recs, hist

vars == <<pc, src, data, ms, res, out, ms2, res2, payload, bid, berr, verr, wire, recs, hist>>

\* ------------------------------------------------------------------ bounds
MaxLen == 3
MaxIntDigits == 2
MaxFracDigits == 2
MaxPairs == 3
MaxOpt == 2
MaxCalls == 2
NumRecs == 2

\* ------------------------------------------------------------- characters
QUOTE == "QUOTE"
BACKSLASH == "BACKSLASH"
LF == "LF"
BEL == "BEL"
E9 == "E9"

DigitChars == <<"0", "1", "2", "3", "4", "5", "6", "7", "8", "9">>
DigitSet == {DigitChars[i] : i \in 1..10}
HexSet == DigitSet \cup {"a", "b", "c", "d", "e", "f", "A", "B", "C", "D", "E", "F"}
ControlSet == {LF, BEL, "BS", "FF", "CR", "TAB"}

DigitVal(c) == (CHOOSE i \in 1..10 : DigitChars[i] = c) - 1

RECURSIVE Pow10(_)
Pow10(n) == IF n <= 0 THEN 1 ELSE 10 * Pow10(n - 1)

RECURSIVE NumDigits(_)
NumDigits(m) == IF m < 10 THEN 1 ELSE 1 + NumDigits(m \div 10)

RECURSIVE DigitsOf(_)
DigitsOf(m) == IF m < 10 THEN <<DigitChars[m + 1]>>
               ELSE Append(DigitsOf(m \div 10), DigitChars[(m % 10) + 1])

RECURSIVE Zeros(_)
Zeros(n) == IF n <= 0 THEN <<>> ELSE <<"0">> \o Zeros(n - 1)

RECURSIVE IntOf(_)
IntOf(ds) == IF ds = <<>> THEN 0
             ELSE 10 * IntOf(SubSeq(ds, 1, Len(ds) - 1)) + DigitVal(ds[Len(ds)])

Drop(q, n) == SubSeq(q, n + 1, Len(q))

\* Length of the longest prefix of q made of decimal digits.
RECURSIVE DigitRun(_)
DigitRun(q) == IF q # <<>> /\ Head(q) \in DigitSet THEN 1 + DigitRun(Tail(q)) ELSE 0

\* --------------------------------------------------------------- float64
\* A float64 is modelled by the decimal it is nearest to: sign, mantissa
\* without trailing zeros, decimal exponent.  For decimals of at most 15
\* significant digits inside the normal range this identifies the float64
\* exactly.  The sign of a zero is kept.
RECURSIVE Normalize(_, _, _)
Normalize(neg, m, e) ==
  IF m = 0 THEN [neg |-> neg, mant |-> 0, exp |-> 0]
  ELSE IF m % 10 = 0 THEN Normalize(neg, m \div 10, e + 1)
  ELSE [neg |-> neg, mant |-> m, exp |-> e]

\* The first nine significant digits of a mantissa.
Lead9(m) ==
  IF NumDigits(m) <= 9 THEN m * Pow10(9 - NumDigits(m))
  ELSE m \div Pow10(NumDigits(m) - 9)

\* Whether the normalised decimal n lies in the range of float64: a range
\* error past the largest float64 (1.7976931348623157e308), zero below the
\* smallest denormal, the decimal itself otherwise.
RangeCheck(n) ==
  IF n.mant = 0 THEN [ok |-> TRUE, val |-> n]
  ELSE IF NumDigits(n.mant) + n.exp > 309
          \/ (NumDigits(n.mant) + n.exp = 309 /\ Lead9(n.mant) > 179769313)
    THEN [ok |-> FALSE, val |-> n]
  ELSE IF NumDigits(n.mant) + n.exp < -323
    THEN [ok |-> TRUE, val |-> [n EXCEPT !.mant = 0, !.exp = 0]]
  ELSE [ok |-> TRUE, val |-> n]

\* strconv.ParseFloat(s, 64) on the decimal m * 10^e.
ParseFloat64(neg, m, e) == RangeCheck(Normalize(neg, m, e))

\* FormatFloat with the precision fixed at two fraction digits ('f', 2).
FormatFloatFixed2(f) ==
  LET scaled == IF f.exp >= -2 THEN f.mant * Pow10(f.exp + 2)
                ELSE f.mant \div Pow10(-(f.exp + 2))
      ds == DigitsOf(scaled)
      padded == Zeros(3 - Len(ds)) \o ds
      n == Len(padded)
  IN  (IF f.neg THEN <<"-">> ELSE <<>>)
        \o SubSeq(padded, 1, n - 2) \o <<".">> \o SubSeq(padded, n - 1, n)

\* strconv.FormatFloat(f, 'f', -1, 64): positional decimal notation, no
\* exponent, the fewest digits that parse back to f.
FormatFloat(f) ==
  LET ds == DigitsOf(f.mant)
      n == Len(ds)
      k == -f.exp
      body == IF f.mant = 0 THEN <<"0">>
              ELSE IF f.exp >= 0 THEN ds \o Zeros(f.exp)
              ELSE IF n > k THEN SubSeq(ds, 1, n - k) \o <<".">> \o SubSeq(ds, n - k + 1, n)
              ELSE <<"0", ".">> \o Zeros(k - n) \o ds
  IN  (IF f.neg THEN <<"-">> ELSE <<>>) \o body

\* ------------------------------------------------- encoding/json, decoding
\* The character a two-byte JSON escape stands for.
EscapeChar(e) ==
  CASE e = QUOTE -> QUOTE
    [] e = BACKSLASH -> BACKSLASH
    [] e = "/" -> "/"
    [] e = "b" -> "BS"
    [] e = "f" -> "FF"
    [] e = "n" -> LF
    [] e = "r" -> "CR"
    [] e = "t" -> "TAB"

SimpleEscapes == {QUOTE, BACKSLASH, "/", "b", "f", "n", "r", "t"}

\* The character of a \uXXXX escape; code points outside the modelled
\* alphabet are one token, OTHER.
RuneOf(h) ==
  CASE h = <<"0", "0", "0", "7">> -> BEL
    [] h \in {<<"0", "0", "0", "a">>, <<"0", "0", "0", "A">>} -> LF
    [] h \in {<<"0", "0", "e", "9">>, <<"0", "0", "E", "9">>} -> E9
    [] h = <<"0", "0", "2", "2">> -> QUOTE
    [] h \in {<<"0", "0", "5", "c">>, <<"0", "0", "5", "C">>} -> BACKSLASH
    [] OTHER -> "OTHER"

\* A JSON string literal after its opening quote: the text it denotes and
\* the bytes left after the closing quote, or a syntax error.
RECURSIVE ScanString(_, _)
ScanString(q, acc) ==
  LET bad == [ok |-> FALSE, text |-> acc, rest |-> <<>>] IN
  IF q = <<>> THEN bad
  ELSE IF Head(q) = QUOTE THEN [ok |-> TRUE, text |-> acc, rest |-> Tail(q)]
  ELSE IF Head(q) \in ControlSet THEN bad
  ELSE IF Head(q) = BACKSLASH THEN
    IF Len(q) < 2 THEN bad
    ELSE IF q[2] \in SimpleEscapes
      THEN ScanString(Drop(q, 2), Append(acc, EscapeChar(q[2])))
    ELSE IF q[2] = "u" /\ Len(q) >= 6 /\ (\A i \in 3..6 : q[i] \in HexSet)
      THEN ScanString(Drop(q, 6), Append(acc, RuneOf(SubSeq(q, 3, 6))))
    ELSE bad
  ELSE ScanString(Tail(q), Append(acc, Head(q)))

\* A JSON number literal, read as the decoder's scanner reads it: sign,
\* integer part without a leading zero, optional fraction, optional
\* exponent.  a collects the sign, the digits as one integer, the number of
\* fraction digits and the exponent.
RECURSIVE ScanNum(_, _, _)
ScanNum(q, st, a) ==
  IF q = <<>> THEN [a EXCEPT !.ok = st \in {"zero", "int", "frac", "exp"}]
  ELSE IF st \in {"start", "neg"} THEN
    IF Head(q) = "-" /\ st = "start" THEN ScanNum(Tail(q), "neg", [a EXCEPT !.neg = TRUE])
    ELSE IF Head(q) = "0" THEN ScanNum(Tail(q), "zero", a)
    ELSE IF Head(q) \in DigitSet
      THEN ScanNum(Tail(q), "int", [a EXCEPT !.mant = DigitVal(Head(q))])
    ELSE a
  ELSE IF st = "int" /\ Head(q) \in DigitSet
    THEN ScanNum(Tail(q), "int", [a EXCEPT !.mant = 10 * @ + DigitVal(Head(q))])
  ELSE IF st \in {"zero", "int"} /\ Head(q) = "."
    THEN ScanNum(Tail(q), "dot", a)
  ELSE IF st \in {"dot", "frac"} /\ Head(q) \in DigitSet
    THEN ScanNum(Tail(q), "frac",
                 [a EXCEPT !.mant = 10 * @ + DigitVal(Head(q)), !.nf = @ + 1])
  ELSE IF st \in {"zero", "int", "frac"} /\ Head(q) \in {"e", "E"}
    THEN ScanNum(Tail(q), "e", a)
  ELSE IF st = "e" /\ Head(q) \in {"+", "-"}
    THEN ScanNum(Tail(q), "esign", [a EXCEPT !.eneg = (Head(q) = "-")])
  ELSE IF st \in {"e", "esign", "exp"} /\ Head(q) \in DigitSet
    THEN ScanNum(Tail(q), "exp", [a EXCEPT !.e = 10 * @ + DigitVal(Head(q))])
  ELSE a

ScanNumber(q) ==
  ScanNum(q, "start", [ok |-> FALSE, neg |-> FALSE, mant |-> 0, nf |-> 0,
                       eneg |-> FALSE, e |-> 0])

ZeroFloat == [neg |-> FALSE, mant |-> 0, exp |-> 0]
NoValue == [err |-> "nil", type |-> "nil", str |-> <<>>, num |-> ZeroFloat]
ErrSyntax == "json: syntax error"
ErrRange == "json: cannot unmarshal number into Go value of type float64"

\* The value of a scanned string literal: nothing may follow it.
StringValue(r) ==
  IF r.ok /\ r.rest = <<>> THEN [NoValue EXCEPT !.type = "string", !.str = r.text]
  ELSE [NoValue EXCEPT !.err = ErrSyntax]

\* The value of a parsed number: a float64, or the range error.
FloatValue(f) ==
  IF f.ok THEN [NoValue EXCEPT !.type = "float64", !.num = f.val]
  ELSE [NoValue EXCEPT !.err = ErrRange]

\* The value of a scanned number literal.
NumberValue(n) ==
  IF ~n.ok THEN [NoValue EXCEPT !.err = ErrSyntax]
  ELSE FloatValue(ParseFloat64(n.neg, n.mant, (IF n.eneg THEN -n.e ELSE n.e) - n.nf))

\* json.Unmarshal(data, &value) with value an empty interface: the dynamic
\* type of the decoded value (string, float64, bool, []interface {},
\* map[string]interface {}, or the nil interface for null) or the error.
\* Arrays and objects are recognised by their brackets.
JSONUnmarshal(d) ==
  IF d = <<>> THEN [NoValue EXCEPT !.err = ErrSyntax]
  ELSE IF Head(d) = QUOTE THEN StringValue(ScanString(Tail(d), <<>>))
  ELSE IF Head(d) \in DigitSet \cup {"-"} THEN NumberValue(ScanNumber(d))
  ELSE IF d \in {<<"true">>, <<"false">>} THEN [NoValue EXCEPT !.type = "bool"]
  ELSE IF d = <<"null">> THEN NoValue
  ELSE IF Head(d) = "[" /\ d[Len(d)] = "]" THEN [NoValue EXCEPT !.type = "[]interface {}"]
  ELSE IF Head(d) = "{" /\ d[Len(d)] = "}" THEN [NoValue EXCEPT !.type = "map[string]interface {}"]
  ELSE [NoValue EXCEPT !.err = ErrSyntax]

\* ------------------------------------------------------------ MultiString
ErrUnknownType(t) ==
  CASE t = "bool" -> "unknown type: bool"
    [] t = "[]interface {}" -> "unknown type: []interface {}"
    [] t = "map[string]interface {}" -> "unknown type: map[string]interface {}"

\* Leading zeros dropped from a text.
RECURSIVE StripZeros(_)
StripZeros(t) == IF Len(t) > 1 /\ Head(t) = "0" THEN StripZeros(Tail(t)) ELSE t

\* A type switch whose string case reads the text as a number and drops
\* its leading zeros.
TypeSwitchReparse(cur, v) ==
  IF v.err # "nil" THEN [s |-> cur, err |-> v.err, panicked |-> FALSE]
  ELSE IF v.type = "string" THEN [s |-> StripZeros(v.str), err |-> "nil", panicked |-> FALSE]
  ELSE IF v.type = "float64" THEN [s |-> FormatFloat(v.num), err |-> "nil", panicked |-> FALSE]
  ELSE [s |-> cur, err |-> "nil", panicked |-> TRUE]

\* The body of UnmarshalJSON after json.Unmarshal: the early return on its
\* error, then the type switch.  On the nil interface (JSON null)
\* reflect.TypeOf(value) is nil and its String method dereferences nil.
TypeSwitch(cur, v) ==
  IF v.err # "nil" THEN [s |-> cur, err |-> v.err, panicked |-> FALSE]
  ELSE IF v.type = "string" THEN [s |-> v.str, err |-> "nil", panicked |-> FALSE]
  ELSE IF v.type = "float64" THEN [s |-> FormatFloat(v.num), err |-> "nil", panicked |-> FALSE]
  ELSE IF v.type = "nil" THEN [s |-> cur, err |-> "nil", panicked |-> TRUE]
  ELSE [s |-> cur, err |-> ErrUnknownType(v.type), panicked |-> FALSE]

\* (s *MultiString) UnmarshalJSON(data): the stored text, the returned
\* error, and whether the call panicked.
UnmarshalJSON(cur, d) == TypeSwitch(cur, JSONUnmarshal(d))

\* strconv.Quote, which fmt applies for %q: the escape of one character.
GoQuoteChar(c) ==
  CASE c = QUOTE -> <<BACKSLASH, QUOTE>>
    [] c = BACKSLASH -> <<BACKSLASH, BACKSLASH>>
    [] c = LF -> <<BACKSLASH, "n">>
    [] c = BEL -> <<BACKSLASH, "a">>
    [] c = "BS" -> <<BACKSLASH, "b">>
    [] c = "FF" -> <<BACKSLASH, "f">>
    [] c = "CR" -> <<BACKSLASH, "r">>
    [] c = "TAB" -> <<BACKSLASH, "t">>
    [] OTHER -> <<c>>

RECURSIVE GoQuoteBody(_)
GoQuoteBody(t) == IF t = <<>> THEN <<>> ELSE GoQuoteChar(Head(t)) \o GoQuoteBody(Tail(t))

\* (s MultiString) String().
String(s) == s

\* A MarshalJSON that formats the pointer itself, as an address.
MarshalPointer(s) == <<"0", "x", "c", "0">>

\* (s *MultiString) MarshalJSON(): fmt.Sprintf("%q", s).  The operand is a
\* *MultiString, whose method set holds String, so fmt formats what String
\* returns, quoted by strconv.Quote.
MarshalJSON(s) == <<QUOTE>> \o GoQuoteBody(String(s)) \o <<QUOTE>>

\* -------------------------------------------------------------------- Bid
ErrInvalidBidNoID == "openrtb: bid is missing ID"
ErrInvalidBidNoImpID == "openrtb: bid is missing impression ID"

\* The fields of Bid in declaration order: Go name, wire name, omitempty,
\* kind of the Go type.
Fields == <<
  [name |-> "ID", key |-> "id", omit |-> FALSE, kind |-> "string"],
  [name |-> "ImpID", key |-> "impid", omit |-> FALSE, kind |-> "string"],
  [name |-> "Price", key |-> "price", omit |-> FALSE, kind |-> "float64"],
  [name |-> "AdID", key |-> "adid", omit |-> TRUE, kind |-> "string"],
  [name |-> "NURL", key |-> "nurl", omit |-> TRUE, kind |-> "string"],
  [name |-> "AdMarkup", key |-> "adm", omit |-> TRUE, kind |-> "string"],
  [name |-> "AdvDomain", key |-> "adomain", omit |-> TRUE, kind |-> "slice"],
  [name |-> "Bundle", key |-> "bundle", omit |-> TRUE, kind |-> "string"],
  [name |-> "IURL", key |-> "iurl", omit |-> TRUE, kind |-> "string"],
  [name |-> "CampaignID", key |-> "cid", omit |-> TRUE, kind |-> "MultiString"],
  [name |-> "CreativeID", key |-> "crid", omit |-> TRUE, kind |-> "string"],
  [name |-> "Cat", key |-> "cat", omit |-> TRUE, kind |-> "slice"],
  [name |-> "Attr", key |-> "attr", omit |-> TRUE, kind |-> "slice"],
  [name |-> "API", key |-> "api", omit |-> TRUE, kind |-> "int"],
  [name |-> "Protocol", key |-> "protocol", omit |-> TRUE, kind |-> "int"],
  [name |-> "QAGMediaRating", key |-> "qagmediarating", omit |-> TRUE, kind |-> "int"],
  [name |-> "DealID", key |-> "dealid", omit |-> TRUE, kind |-> "string"],
  [name |-> "H", key |-> "h", omit |-> TRUE, kind |-> "int"],
  [name |-> "W", key |-> "w", omit |-> TRUE, kind |-> "int"],
  [name |-> "Exp", key |-> "exp", omit |-> TRUE, kind |-> "int"],
  [name |-> "Ext", key |-> "ext", omit |-> TRUE, kind |-> "Extension"] >>

NumFields == Len(Fields)

\* The zero value of a field of the given kind.
ZeroOf(kind) ==
  CASE kind \in {"string", "MultiString", "slice"} -> <<>>
    [] kind = "float64" -> ZeroFloat
    [] kind = "int" -> 0
    [] kind = "Extension" -> "nil"

\* The zero Bid: what a declaration without initialiser holds.
ZeroBid == [n \in {Fields[i].name : i \in 1..NumFields} |->
              ZeroOf(Fields[CHOOSE i \in 1..NumFields : Fields[i].name = n].kind)]

\* A Validate that tests ImpID before ID.
ValidateImpFirst(b) ==
  [bid |-> b,
   err |-> IF b.ImpID = <<>> THEN ErrInvalidBidNoImpID
           ELSE IF b.ID = <<>> THEN ErrInvalidBidNoID
           ELSE "nil"]

\* A Validate that also rejects a price that is not positive.
ValidatePrice(b) ==
  [bid |-> b,
   err |-> IF b.ID = <<>> THEN ErrInvalidBidNoID
           ELSE IF b.ImpID = <<>> THEN ErrInvalidBidNoImpID
           ELSE IF b.Price.neg \/ b.Price.mant = 0 THEN ErrInvalidBidNoID
           ELSE "nil"]

\* A Validate that fills in a default for a missing ID.
ValidateDefaulting(b) ==
  IF b.ID = <<>> THEN [bid |-> [b EXCEPT !.ID = <<"0">>], err |-> ErrInvalidBidNoID]
  ELSE IF b.ImpID = <<>> THEN [bid |-> b, err |-> ErrInvalidBidNoImpID]
  ELSE [bid |-> b, err |-> "nil"]

\* (bid *Bid) Validate(): the record behind the pointer after the call and
\* the returned error.
Validate(b) ==
  IF b.ID = <<>> THEN [bid |-> b, err |-> ErrInvalidBidNoID]
  ELSE IF b.ImpID = <<>> THEN [bid |-> b, err |-> ErrInvalidBidNoImpID]
  ELSE [bid |-> b, err |-> "nil"]

\* ------------------------------------------- encoding/json on a Bid, decode
ErrType == "json: cannot unmarshal value into Go struct field of Bid"

\* Index of the field with wire name k, 0 when there is none.
FieldIndex(k) ==
  IF \E i \in 1..NumFields : Fields[i].key = k
  THEN CHOOSE i \in 1..NumFields : Fields[i].key = k
  ELSE 0

IsIntLiteral(v) == \A i \in 1..Len(v) : v[i] \in DigitSet \cup {"-"}

IntValue(v) == IF Head(v) = "-" THEN -IntOf(Tail(v)) ELSE IntOf(v)

Kept(b) == [bid |-> b, hard |-> "nil", soft |-> "nil", panicked |-> FALSE]
Mismatch(b) == [bid |-> b, hard |-> "nil", soft |-> ErrType, panicked |-> FALSE]

\* The outcome of UnmarshalJSON on the CampaignID field: what it returns
\* ends the decoding.
StoreCampaignID(b, r) ==
  [bid |-> [b EXCEPT !.CampaignID = r.s], hard |-> r.err, soft |-> "nil",
   panicked |-> r.panicked]

\* The decoded value j of the literal v stored into field f, whose Go type
\* has no Unmarshaler: null leaves the field alone, a value of another
\* shape is a type error the decoder notes and carries on with.
StoreValue(b, f, v, j) ==
  IF j.err = "nil" /\ j.type = "nil" THEN Kept(b)
  ELSE IF f.kind = "string" THEN
    IF j.type = "string" THEN Kept([b EXCEPT ![f.name] = j.str]) ELSE Mismatch(b)
  ELSE IF f.kind = "float64" THEN
    IF j.type = "float64" THEN Kept([b EXCEPT ![f.name] = j.num]) ELSE Mismatch(b)
  ELSE IF f.kind = "int" THEN
    IF j.type = "float64" /\ IsIntLiteral(v)
    THEN Kept([b EXCEPT ![f.name] = IntValue(v)]) ELSE Mismatch(b)
  ELSE IF f.kind = "slice" THEN
    IF j.type = "[]interface {}"
    THEN Kept([b EXCEPT ![f.name] = SubSeq(v, 2, Len(v) - 1)]) ELSE Mismatch(b)
  ELSE IF j.type = "map[string]interface {}"
    THEN Kept([b EXCEPT !.Ext = "ext"]) ELSE Mismatch(b)

\* One member of the object decoded into the record: the record after it,
\* the error that ends the decoding (hard), the type error the decoder
\* notes and carries on with (soft), and whether the call panicked.  A
\* member no field is tagged with is skipped.  A value whose field
\* implements Unmarshaler goes to UnmarshalJSON, null included.
DecodeField(b, k, v) ==
  IF FieldIndex(k) = 0 THEN Kept(b)
  ELSE IF Fields[FieldIndex(k)].kind = "MultiString"
    THEN StoreCampaignID(b, UnmarshalJSON(b.CampaignID, v))
  ELSE StoreValue(b, Fields[FieldIndex(k)], v, JSONUnmarshal(v))

\* The members of the object in source order: a panic or a hard error stops
\* at once; the first soft error is kept and returned at the end.
RECURSIVE DecodeMembers(_, _, _)
RECURSIVE AfterMember(_, _, _)
AfterMember(r, rest, soft) ==
  IF r.panicked THEN [bid |-> r.bid, err |-> "nil", panicked |-> TRUE]
  ELSE IF r.hard # "nil" THEN [bid |-> r.bid, err |-> r.hard, panicked |-> FALSE]
  ELSE DecodeMembers(r.bid, rest, IF soft = "nil" THEN r.soft ELSE soft)

DecodeMembers(b, p, soft) ==
  IF p = <<>> THEN [bid |-> b, err |-> soft, panicked |-> FALSE]
  ELSE AfterMember(DecodeField(b, Head(p).key, Head(p).val), Tail(p), soft)

\* json.Unmarshal(data, &bid) on an object given by its members: the whole
\* input is checked for syntax before anything is stored.  Member names
\* are matched exactly here (encoding/json also accepts another case).
UnmarshalBid(b, p) ==
  IF \E i \in 1..Len(p) : JSONUnmarshal(p[i].val).err = ErrSyntax
  THEN [bid |-> b, err |-> ErrSyntax, panicked |-> FALSE]
  ELSE DecodeMembers(b, p, "nil")

\* ------------------------------------------- encoding/json on a Bid, encode
\* encoding/json's own string encoder: the escape of one character.
JSONQuoteChar(c) ==
  CASE c = QUOTE -> <<BACKSLASH, QUOTE>>
    [] c = BACKSLASH -> <<BACKSLASH, BACKSLASH>>
    [] c = LF -> <<BACKSLASH, "n">>
    [] c = "CR" -> <<BACKSLASH, "r">>
    [] c = "TAB" -> <<BACKSLASH, "t">>
    [] c = BEL -> <<BACKSLASH, "u", "0", "0", "0", "7">>
    [] c = "BS" -> <<BACKSLASH, "u", "0", "0", "0", "8">>
    [] c = "FF" -> <<BACKSLASH, "u", "0", "0", "0", "c">>
    [] OTHER -> <<c>>

RECURSIVE JSONQuoteBody(_)
JSONQuoteBody(t) == IF t = <<>> THEN <<>> ELSE JSONQuoteChar(Head(t)) \o JSONQuoteBody(Tail(t))

JSONQuote(t) == <<QUOTE>> \o JSONQuoteBody(t) \o <<QUOTE>>

\* omitempty: false, 0, a nil pointer or interface, and any empty array,
\* slice, map or string.  Extension is declared outside bid.go.
IsEmptyValue(kind, x) ==
  CASE kind \in {"string", "MultiString", "slice"} -> Len(x) = 0
    [] kind = "int" -> x = 0
    [] kind = "float64" -> x.mant = 0
    [] kind = "Extension" -> x = "nil"

\* What the encoder makes of the bytes a Marshaler returned: it scans them
\* (compact) and fails unless they are valid JSON.
Compact(m) ==
  [val |-> m,
   err |-> IF JSONUnmarshal(m).err = ErrSyntax
           THEN "json: error calling MarshalJSON for type *openrtb.MultiString"
           ELSE "nil"]

\* The encoding of one field.  A MultiString field that is addressable is
\* encoded by its pointer method MarshalJSON; one that is not addressable
\* is encoded as a plain string.
EncodeField(f, x, addressable) ==
  CASE f.kind = "MultiString" ->
         IF addressable THEN Compact(MarshalJSON(x))
         ELSE [val |-> JSONQuote(x), err |-> "nil"]
    [] f.kind = "string" -> [val |-> JSONQuote(x), err |-> "nil"]
    [] f.kind = "int" ->
         [val |-> IF x < 0 THEN <<"-">> \o DigitsOf(-x) ELSE DigitsOf(x), err |-> "nil"]
    [] f.kind = "float64" -> [val |-> FormatFloat(x), err |-> "nil"]
    [] f.kind = "slice" -> [val |-> <<"[">> \o x \o <<"]">>, err |-> "nil"]
    [] f.kind = "Extension" -> [val |-> <<"{", "}">>, err |-> "nil"]

\* json.Marshal of a Bid: the members written, in declaration order, or the
\* error of the first field whose encoding fails.
RECURSIVE EncodeFrom(_, _, _, _)
RECURSIVE AfterField(_, _, _, _, _)
AfterField(b, i, addressable, acc, e) ==
  IF e.err # "nil" THEN [obj |-> <<>>, err |-> e.err]
  ELSE EncodeFrom(b, i + 1, addressable, Append(acc, [key |-> Fields[i].key, val |-> e.val]))

EncodeFrom(b, i, addressable, acc) ==
  IF i > NumFields THEN [obj |-> acc, err |-> "nil"]
  ELSE IF Fields[i].omit /\ IsEmptyValue(Fields[i].kind, b[Fields[i].name])
    THEN EncodeFrom(b, i + 1, addressable, acc)
  ELSE AfterField(b, i, addressable, acc,
                  EncodeField(Fields[i], b[Fields[i].name], addressable))

MarshalBid(b, addressable) == EncodeFrom(b, 1, addressable, <<>>)

\* ----------------------------------------------------------------- inputs
SeqsUpTo(S, lo, hi) == UNION {[1..n -> S] : n \in lo..hi}

TextChars == {"a", "0", "1", ".", QUOTE, BACKSLASH, LF, BEL, E9}
Texts == SeqsUpTo(TextChars, 0, MaxLen)

NumChars == {"0", "1", "5"}
IntParts == {q \in SeqsUpTo(NumChars, 1, MaxIntDigits) : Len(q) = 1 \/ q[1] # "0"}
FracParts == {<<>>} \cup {<<".">> \o q : q \in SeqsUpTo(NumChars, 1, MaxFracDigits)}
ExpParts == {<<>>, <<"e", "2">>, <<"e", "-", "2">>, <<"e", "4", "0", "0">>,
             <<"e", "-", "4", "0", "0">>}
NumberLiterals == {s \o i \o f \o e : s \in {<<>>, <<"-">>}, i \in IntParts,
                                      f \in FracParts, e \in ExpParts}
OtherLiterals == {<<"true">>, <<"false">>, <<"null">>, <<"[", "]">>, <<"{", "}">>}

\* What a caller hands to UnmarshalJSON: a text as a producer writes it, a
\* number, a value of another shape, or a string literal cut short.
Sources ==
  {[kind |-> "text", text |-> t, bytes |-> JSONQuote(t)] : t \in Texts}
  \cup {[kind |-> "number", text |-> <<>>, bytes |-> n] : n \in NumberLiterals}
  \cup {[kind |-> "other", text |-> <<>>, bytes |-> o] : o \in OtherLiterals}
  \cup {[kind |-> "broken", text |-> <<>>, bytes |-> <<QUOTE, "a">>]}

NoSource == [kind |-> "none", text |-> <<>>, bytes |-> <<>>]
NoResult == [err |-> "nil", panicked |-> FALSE]
NoWire == [obj |-> <<>>, err |-> "nil"]

Member(k, v) == [key |-> k, val |-> v]

\* The members a bidder may write into a bid object.
MemberChoices ==
  {Member("id", JSONQuote(<<"b", "1">>)), Member("id", JSONQuote(<<>>)),
   Member("impid", JSONQuote(<<"i", "1">>)), Member("impid", JSONQuote(<<>>)),
   Member("price", <<"2", ".", "5">>),
   Member("cid", JSONQuote(<<"c", "9">>)), Member("cid", JSONQuote(<<BEL>>)),
   Member("cid", <<"1", "2", "3">>), Member("cid", <<"true">>),
   Member("cid", <<"null">>), Member("cid", <<"[", "]">>), Member("cid", <<"{", "}">>),
   Member("crid", JSONQuote(<<"x">>)),
   Member("w", <<"3", "0", "0">>),
   Member("h", JSONQuote(<<"x">>)),
   Member("seat", JSONQuote(<<"x">>))}

ExamplePayload(n) ==
  <<Member("id", JSONQuote(<<"b", "1">>)), Member("impid", JSONQuote(<<"i", "1">>)),
    Member("price", <<"2", ".", "5">>), Member("cid", n)>>

Payloads ==
  {q \in SeqsUpTo(MemberChoices, 0, MaxPairs) :
     \A i, j \in 1..Len(q) : i # j => q[i].key # q[j].key}
  \cup {ExamplePayload(n) : n \in NumberLiterals \cup {<<"1", "2", "3">>}}

PriceChoices == {ZeroFloat, [neg |-> TRUE, mant |-> 1, exp |-> 0],
                 [neg |-> FALSE, mant |-> 25, exp |-> -1]}

\* The non-zero values a caller may give an optional field.
OptionalChoices ==
  {<<n, <<"x">>>> : n \in {"AdID", "NURL", "AdMarkup", "Bundle", "IURL", "CreativeID", "DealID"}}
  \cup {<<"CampaignID", c>> : c \in {<<"c", "9">>, <<"1", "2", "3">>, <<BEL>>}}
  \cup {<<n, <<"d">>>> : n \in {"AdvDomain", "Cat", "Attr"}}
  \cup {<<n, v>> : n \in {"API", "Protocol", "QAGMediaRating", "H", "W", "Exp"}, v \in {7, -1}}
  \cup {<<"Ext", "ext">>}

RequiredBids ==
  {[ZeroBid EXCEPT !.ID = i, !.ImpID = m, !.Price = p] :
     i \in {<<>>, <<"b", "1">>}, m \in {<<>>, <<"i", "1">>}, p \in PriceChoices}

RECURSIVE WithOptional(_)
WithOptional(k) ==
  IF k <= 0 THEN RequiredBids
  ELSE LET prev == WithOptional(k - 1) IN
       prev \cup {[b EXCEPT ![c[1]] = c[2]] : b \in prev, c \in OptionalChoices}

FullBid ==
  [ID |-> <<"b", "1">>, ImpID |-> <<"i", "1">>, Price |-> [neg |-> FALSE, mant |-> 25, exp |-> -1],
   AdID |-> <<"x">>, NURL |-> <<"x">>, AdMarkup |-> <<"x">>, AdvDomain |-> <<"d">>,
   Bundle |-> <<"x">>, IURL |-> <<"x">>, CampaignID |-> <<"c", "9">>, CreativeID |-> <<"x">>,
   Cat |-> <<"c">>, Attr |-> <<"7">>, API |-> 7, Protocol |-> 7, QAGMediaRating |-> 7,
   DealID |-> <<"x">>, H |-> 7, W |-> 7, Exp |-> 7, Ext |-> "ext"]

\* The records a caller may build with a composite literal.
BidLiterals == WithOptional(MaxOpt) \cup {FullBid}

\* ---------------------------------------------------- MultiString, use
IdleBid ==
  /\ payload = <<>> /\ bid = ZeroBid /\ berr = "nil" /\ verr = "nil" /\ wire = NoWire
IdleMS ==
  /\ src = NoSource /\ data = <<>> /\ ms = <<>> /\ res = NoResult /\ out = <<>>
  /\ ms2 = <<>> /\ res2 = NoResult
IdleRecs == recs = <<>> /\ hist = <<>>

Init ==
  /\ pc = "new"
  /\ src \in Sources
  /\ data = src.bytes
  /\ ms = <<>> /\ res = NoResult /\ out = <<>> /\ ms2 = <<>> /\ res2 = NoResult
  /\ IdleBid /\ IdleRecs

Decoded(r) ==
  /\ ms' = r.s
  /\ res' = [err |-> r.err, panicked |-> r.panicked]
  /\ pc' = IF r.panicked THEN "panicked"
           ELSE IF r.err # "nil" THEN "failed" ELSE "decoded"

\* var s MultiString; err := s.UnmarshalJSON(data)
Decode ==
  /\ pc = "new"
  /\ Decoded(UnmarshalJSON(ms, data))
  /\ UNCHANGED <<src, data, out, ms2, res2, payload, bid, berr, verr, wire, recs, hist>>

\* out, _ := s.MarshalJSON()
Encode ==
  /\ pc = "decoded"
  /\ out' = MarshalJSON(ms)
  /\ pc' = "encoded"
  /\ UNCHANGED <<src, data, ms, res, ms2, res2, payload, bid, berr, verr, wire, recs, hist>>

Redecoded(r) ==
  /\ ms2' = r.s
  /\ res2' = [err |-> r.err, panicked |-> r.panicked]

\* var s2 MultiString; err := s2.UnmarshalJSON(out)
Redecode ==
  /\ pc = "encoded"
  /\ Redecoded(UnmarshalJSON(<<>>, out))
  /\ pc' = "redecoded"
  /\ UNCHANGED <<src, data, ms, res, out, payload, bid, berr, verr, wire, recs, hist>>

Next == Decode \/ Encode \/ Redecode

Spec == Init /\ [][Next]_vars

\* ------------------------------------------------------------ Bid, use
InitBid ==
  /\ IdleMS /\ IdleRecs
  /\ berr = "nil" /\ verr = "nil" /\ wire = NoWire
  /\ \/ pc = "wire" /\ payload \in Payloads /\ bid = ZeroBid
     \/ pc = "built" /\ payload = <<>> /\ bid \in BidLiterals

Unmarshalled(r) ==
  /\ bid' = r.bid
  /\ berr' = r.err
  /\ pc' = IF r.panicked THEN "panicked"
           ELSE IF r.err # "nil" THEN "failed" ELSE "built"

\* var bid Bid; err := json.Unmarshal(data, &bid)
Unmarshal ==
  /\ pc = "wire"
  /\ Unmarshalled(UnmarshalBid(bid, payload))
  /\ UNCHANGED <<src, data, ms, res, out, ms2, res2, payload, verr, wire, recs, hist>>

\* err := bid.Validate()
ValidateBid ==
  /\ pc = "built"
  /\ bid' = Validate(bid).bid
  /\ verr' = Validate(bid).err
  /\ pc' = "validated"
  /\ UNCHANGED <<src, data, ms, res, out, ms2, res2, payload, berr, wire, recs, hist>>

\* json.Marshal(&bid), or a bid held in a slice (addressable); json.Marshal(bid)
Marshal ==
  /\ pc \in {"built", "validated"}
  /\ \E addressable \in BOOLEAN : wire' = MarshalBid(bid, addressable)
  /\ pc' = "sent"
  /\ UNCHANGED <<src, data, ms, res, out, ms2, res2, payload, bid, berr, verr, recs, hist>>

NextBid == Unmarshal \/ ValidateBid \/ Marshal

SpecBid == InitBid /\ [][NextBid]_vars

\* ------------------------------------------- Validate, several records
SmallBids == RequiredBids

InitRecs ==
  /\ IdleMS /\ IdleBid
  /\ pc = "validating"
  /\ recs \in [1..NumRecs -> SmallBids]
  /\ hist = [i \in 1..NumRecs |-> <<>>]

\* err := recs[i].Validate(), by any caller, in any order
ValidateRec(i) ==
  /\ Len(hist[i]) < MaxCalls
  /\ recs' = [recs EXCEPT ![i] = Validate(recs[i]).bid]
  /\ hist' = [hist EXCEPT ![i] = Append(@, Validate(recs[i]).err)]
  /\ UNCHANGED <<pc, src, data, ms, res, out, ms2, res2, payload, bid, berr, verr, wire>>

NextRecs == \E i \in 1..NumRecs : ValidateRec(i)

SpecRecs == InitRecs /\ [][NextRecs]_vars

\* ================================================================ claims
\* ------------------------------------------------------------------- C1
\* C1: Validate returns nil exactly when ID and ImpID are both non-empty,
\* whatever the other fields hold (a zero or negative Price, any H, W, API,
\* Protocol or rating code); so a record that passed has both.
C1_ValidateNilIffBothPresent ==
  pc = "validated" => (verr = "nil" <=> (bid.ID # <<>> /\ bid.ImpID # <<>>))

C1_Witness ==
  /\ pc = "validated" /\ verr = "nil"
  /\ bid.Price.neg /\ bid.H = -1
  /\ bid.ID = <<"b", "1">> /\ bid.ImpID = <<"i", "1">>

\* ------------------------------------------------------------------- C2
\* C2: Validate checks ID first and ImpID second and reports the first
\* failure only: an empty ID gives ErrInvalidBidNoID whatever ImpID is,
\* ErrInvalidBidNoImpID is returned only for a non-empty ID with an empty
\* ImpID, and the two errors differ.
C2_FirstFailureOnly ==
  pc = "validated" =>
    /\ bid.ID = <<>> => verr = ErrInvalidBidNoID
    /\ verr = ErrInvalidBidNoImpID <=> (bid.ID # <<>> /\ bid.ImpID = <<>>)
    /\ ErrInvalidBidNoID # ErrInvalidBidNoImpID

C2_Witness ==
  pc = "validated" /\ bid.ID = <<>> /\ bid.ImpID = <<>> /\ verr = ErrInvalidBidNoID

\* ------------------------------------------------------------------- C3
UnknownTypeErrors ==
  {"unknown type: bool", "unknown type: []interface {}",
   "unknown type: map[string]interface {}", "unknown type: <nil>"}

\* C3: UnmarshalJSON on a boolean, null, array or object always ends by
\* returning an error that names the shape; it never succeeds and never
\* ends otherwise.
C3_OtherShapesReturnError ==
  (src.kind = "other" /\ pc # "new") =>
    /\ pc = "failed"
    /\ ~res.panicked
    /\ res.err \in UnknownTypeErrors
    /\ src.bytes \in {<<"true">>, <<"false">>} => res.err = "unknown type: bool"
    /\ src.bytes = <<"[", "]">> => res.err = "unknown type: []interface {}"
    /\ src.bytes = <<"{", "}">> => res.err = "unknown type: map[string]interface {}"

\* ------------------------------------------------------------------- C4
\* strconv.Unquote on the inside of a double-quoted Go string literal.
RECURSIVE GoUnquoteBody(_, _)
GoUnquoteBody(q, acc) ==
  IF q = <<>> THEN [ok |-> TRUE, text |-> acc]
  ELSE IF Head(q) \in {QUOTE, LF, BEL} THEN [ok |-> FALSE, text |-> acc]
  ELSE IF Head(q) = BACKSLASH THEN
    IF Len(q) < 2 THEN [ok |-> FALSE, text |-> acc]
    ELSE IF q[2] \in {QUOTE, BACKSLASH} THEN GoUnquoteBody(Drop(q, 2), Append(acc, q[2]))
    ELSE IF q[2] = "n" THEN GoUnquoteBody(Drop(q, 2), Append(acc, LF))
    ELSE IF q[2] = "a" THEN GoUnquoteBody(Drop(q, 2), Append(acc, BEL))
    ELSE [ok |-> FALSE, text |-> acc]
  ELSE GoUnquoteBody(Tail(q), Append(acc, Head(q)))

PlainText(t) == \A i \in 1..Len(t) : t[i] \notin {QUOTE, BACKSLASH, LF, BEL}

\* C4: MarshalJSON emits the stored text as a quoted string literal: the
\* output opens and closes with a quote, what stands between them reads
\* back as the stored text (and is the text itself when nothing in it needs
\* an escape), whether the text came from a number or from a string; it is
\* neither an address nor a bare number.
C4_EmitsQuotedText ==
  pc \in {"encoded", "redecoded"} =>
    /\ Len(out) >= 2
    /\ Head(out) = QUOTE /\ out[Len(out)] = QUOTE
    /\ GoUnquoteBody(SubSeq(out, 2, Len(out) - 1), <<>>) = [ok |-> TRUE, text |-> ms]
    /\ PlainText(ms) => out = <<QUOTE>> \o ms \o <<QUOTE>>

C4_Witness ==
  /\ pc = "encoded" /\ src.kind = "number"
  /\ ms = <<"1", "5">> /\ out = <<QUOTE, "1", "5", QUOTE>>

\* ------------------------------------------------------------------- C5
\* The payload is the record {"id":"b1","impid":"i1","price":2.5,"cid":n}
\* with n a number literal.
NumericExample ==
  /\ Len(payload) = 4
  /\ payload = ExamplePayload(payload[4].val)
  /\ Head(payload[4].val) \in DigitSet \cup {"-"}

\* A decimal text in positional notation with no digit to spare: no plus
\* sign, no exponent, no leading zero before other digits, no fraction
\* that is empty or ends in zero.
MinimalDecimal(t) ==
  LET u == IF t # <<>> /\ Head(t) = "-" THEN Tail(t) ELSE t
      n == DigitRun(u)
      f == Drop(u, n)
  IN  /\ n >= 1
      /\ n > 1 => u[1] # "0"
      /\ \/ f = <<>>
         \/ /\ Head(f) = "."
            /\ Len(f) >= 2
            /\ DigitRun(Tail(f)) = Len(f) - 1
            /\ f[Len(f)] # "0"

C5_Outcome ==
  /\ pc \in {"built", "validated", "sent"}
  /\ berr = "nil"
  /\ MinimalDecimal(bid.CampaignID)
  /\ JSONUnmarshal(bid.CampaignID).type = "float64"
  /\ JSONUnmarshal(bid.CampaignID).num = JSONUnmarshal(payload[4].val).num
  /\ payload[4].val = <<"1", "2", "3">> => bid.CampaignID = <<"1", "2", "3">>
  /\ pc = "validated" => verr = "nil"

C6_TextKeptVerbatim ==
  (src.kind = "text" /\ pc # "new") =>
    /\ pc \in {"decoded", "encoded", "redecoded"}
    /\ res = [err |-> "nil", panicked |-> FALSE]
    /\ ms = src.text

C6_Witness ==
  pc = "decoded" /\ src.kind = "text" /\ src.text = <<"0", "1">> /\ ms = <<"0", "1">>

\* ------------------------------------------------------------------- C7
ExpectedKeys(b) ==
  {"id", "impid", "price"}
  \cup (IF b.AdID # <<>> THEN {"adid"} ELSE {})
  \cup (IF b.NURL # <<>> THEN {"nurl"} ELSE {})
  \cup (IF b.AdMarkup # <<>> THEN {"adm"} ELSE {})
  \cup (IF b.AdvDomain # <<>> THEN {"adomain"} ELSE {})
  \cup (IF b.Bundle # <<>> THEN {"bundle"} ELSE {})
  \cup (IF b.IURL # <<>> THEN {"iurl"} ELSE {})
  \cup (IF b.CampaignID # <<>> THEN {"cid"} ELSE {})
  \cup (IF b.CreativeID # <<>> THEN {"crid"} ELSE {})
  \cup (IF b.Cat # <<>> THEN {"cat"} ELSE {})
  \cup (IF b.Attr # <<>> THEN {"attr"} ELSE {})
  \cup (IF b.API # 0 THEN {"api"} ELSE {})
  \cup (IF b.Protocol # 0 THEN {"protocol"} ELSE {})
  \cup (IF b.QAGMediaRating # 0 THEN {"qagmediarating"} ELSE {})
  \cup (IF b.DealID # <<>> THEN {"dealid"} ELSE {})
  \cup (IF b.H # 0 THEN {"h"} ELSE {})
  \cup (IF b.W # 0 THEN {"w"} ELSE {})
  \cup (IF b.Exp # 0 THEN {"exp"} ELSE {})
  \cup (IF b.Ext # "nil" THEN {"ext"} ELSE {})

\* C7: serializing a Bid yields an object whose keys are id, impid and
\* price, plus the wire name of each optional field that is not empty, and
\* nothing else.
C7_ExactKeySet ==
  pc = "sent" =>
    /\ wire.err = "nil"
    /\ {wire.obj[i].key : i \in 1..Len(wire.obj)} = ExpectedKeys(bid)
    /\ Len(wire.obj) = Cardinality(ExpectedKeys(bid))

\* ------------------------------------------------------------------- C8
\* The zero value of the field tagged k still stands in the record.
Untouched(k) ==
  FieldIndex(k) # 0 =>
    bid[Fields[FieldIndex(k)].name] = ZeroBid[Fields[FieldIndex(k)].name]

\* C8: a cid of a shape other than text or number stops the decoding of
\* the Bid at once with that error: no success, no default or coerced
\* campaign id, and the members after cid are not decoded.
C8_BadCidAbortsDecode ==
  \A k \in 1..Len(payload) :
    (pc # "wire" /\ payload[k].key = "cid" /\ payload[k].val \in OtherLiterals) =>
      /\ pc = "failed"
      /\ berr \in UnknownTypeErrors
      /\ bid.CampaignID = <<>>
      /\ \A m \in (k + 1)..Len(payload) : Untouched(payload[m].key)

\* ------------------------------------------------------------------- C9
\* C9: a Validate call changes no field of any record, and every call on a
\* record returns what the first call on it returned, however the calls on
\* the records interleave.
C9_ValidatePure ==
  [][/\ recs' = recs
     /\ \A i \in 1..NumRecs :
          Len(hist'[i]) > 0 => hist'[i][Len(hist'[i])] = hist'[i][1]]_vars

C9_Witness ==
  /\ Len(hist[1]) = 2 /\ Len(hist[2]) = 2
  /\ hist[1][2] = ErrInvalidBidNoID /\ hist[2][2] = "nil"

\* ------------------------------------------------------------------ C10
\* C10: what MarshalJSON writes is a valid JSON string literal, and
\* UnmarshalJSON on it succeeds and gives back the stored text, for every
\* stored text and also after a number was decoded.
C10_RoundTrip ==
  /\ pc \in {"encoded", "redecoded"} =>
       /\ JSONUnmarshal(out).err = "nil"
       /\ JSONUnmarshal(out).type = "string"
  /\ pc = "redecoded" =>
       /\ res2 = [err |-> "nil", panicked |-> FALSE]
       /\ ms2 = ms

====
